---- MODULE Spec2Model ----
(***************************************************************************)
(* photosort.py: group the files of a flat directory into sub-folders by   *)
(* creation date, optionally renaming them to <date>[_idx].<ext>, copying  *)
(* without overwriting and rolling back when a target already exists.      *)
(*                                                                         *)
(* Strings are sequences of one-character strings, so that joining,        *)
(* splitting, padding and formatting are computed as Python computes them. *)
(* The platform is one whose os.stat exposes st_birthtime.                 *)
(***************************************************************************)
EXTENDS Integers, Sequences, FiniteSets, TLC

\* ------------------------------------------------------------------------
\* Bounds of the model
\* ------------------------------------------------------------------------
\* largest number of entries of a source directory drawn from Entries
MaxFiles == 2
\* largest number of same-day files of a source directory of the long shape
MaxSame == 10

\* ------------------------------------------------------------------------
\* Strings
\* ------------------------------------------------------------------------
Digits == <<"0", "1", "2", "3", "4", "5", "6", "7", "8", "9">>

RECURSIVE str(_)
\* str(n) of a non-negative int
str(n) == IF n < 10 THEN <<Digits[n + 1]>>
          ELSE str(n \div 10) \o <<Digits[(n % 10) + 1]>>

\* s.rjust(width, fillchar)
rjust(s, width, fillchar) ==
    IF Len(s) >= width THEN s
    ELSE [k \in 1..(width - Len(s)) |-> fillchar] \o s

\* c in s
Contains(s, c) == \E k \in 1..Len(s) : s[k] = c

\* position of the last c in s, 0 when there is none
LastIndex(s, c) ==
    IF Contains(s, c)
    THEN CHOOSE k \in 1..Len(s) :
            s[k] = c /\ \A m \in (k + 1)..Len(s) : s[m] # c
    ELSE 0

\* s.split(c)[-1]: what follows the last c, all of s when there is none
SplitLast(s, c) == SubSeq(s, LastIndex(s, c) + 1, Len(s))

\* sep.join(s.split(sep)[:-1]) and os.path.dirname(s) for a path holding a
\* separator that is not its first character
SplitInit(s, c) == SubSeq(s, 1, LastIndex(s, c) - 1)

Sep == "/"

\* os.path.join(a, b) for a relative b
join(a, b) == a \o <<Sep>> \o b

\* s.startswith(p)
StartsWith(s, p) == Len(p) <= Len(s) /\ SubSeq(s, 1, Len(p)) = p

\* every proper ancestor directory of path p (the root "/" left out)
Ancestors(p) ==
    {SubSeq(p, 1, k - 1) : k \in {m \in 2..Len(p) : p[m] = Sep}}

\* int(math.log10(n)) for n >= 1
RECURSIVE log10_int(_)
log10_int(n) == IF n < 10 THEN 0 ELSE 1 + log10_int(n \div 10)

\* ------------------------------------------------------------------------
\* Program constants and the command line
\* ------------------------------------------------------------------------
SUPPORTED_GROUPINGS == {"year", "month", "date"}

IGNORED_FILENAMES == {<<".", "D", "S", "_", "S", "t", "o", "r", "e">>}

\* --rootdir and --targetdir
RootDir == <<Sep, "r">>
TargetDir == <<Sep, "t">>
\* a working directory that is not the root directory
OtherDir == <<Sep, "w">>

\* --dateformat values: the default %Y%m%d, and %Y%m
DateFormats == {<<"%Y", "%m", "%d">>, <<"%Y", "%m">>}

\* ------------------------------------------------------------------------
\* Creation dates
\* ------------------------------------------------------------------------
\* get_epoch_createtime + get_createdate: ctime() prints the birth time to
\* the second and strptime parses it back; the fraction is dropped.
get_createdate(birthtime) ==
    [year |-> birthtime.year, month |-> birthtime.month,
     day |-> birthtime.day, sec |-> birthtime.sec]

get_year_month_day(datetime_obj) ==
    <<str(datetime_obj.year),
      rjust(str(datetime_obj.month), 2, "0"),
      rjust(str(datetime_obj.day), 2, "0")>>

\* one strftime directive
Directive(d, datetime_obj) ==
    CASE d = "%Y" -> rjust(str(datetime_obj.year), 4, "0")
      [] d = "%m" -> rjust(str(datetime_obj.month), 2, "0")
      [] d = "%d" -> rjust(str(datetime_obj.day), 2, "0")
      [] OTHER -> <<d>>

RECURSIVE strftime(_, _)
strftime(datetime_obj, datefmt) ==
    IF datefmt = <<>> THEN <<>>
    ELSE Directive(Head(datefmt), datetime_obj)
            \o strftime(datetime_obj, Tail(datefmt))

\* datetime ordering
DatetimeLess(a, b) ==
    \/ a.year < b.year
    \/ a.year = b.year /\ a.month < b.month
    \/ a.year = b.year /\ a.month = b.month /\ a.day < b.day
    \/ a.year = b.year /\ a.month = b.month /\ a.day = b.day /\ a.sec < b.sec

\* a sort key that keeps the calendar date and drops the time of day
sort_key_date_only(elem) == [elem[2] EXCEPT !.sec = 0]

\* key=lambda elem: elem[1]
sort_key(elem) == elem[2]

RECURSIVE sorted(_)
\* sorted(pairs, key=...): stable, ascending
sorted(pairs) ==
    IF pairs = <<>> THEN <<>>
    ELSE LET h == Head(pairs)
             rest == sorted(Tail(pairs))
             before == SelectSeq(rest,
                 LAMBDA e : DatetimeLess(sort_key(e), sort_key(h)))
             after == SelectSeq(rest,
                 LAMBDA e : ~DatetimeLess(sort_key(e), sort_key(h)))
         IN  before \o <<h>> \o after

\* ------------------------------------------------------------------------
\* The file system as the program reads it
\* ------------------------------------------------------------------------
\* os.path.isdir(path) of an absolute path
isdir(path, dirs) == path \in dirs

\* os.path.isdir(f) of a relative path: resolved against the working directory
isdir_relative(f, cwd, dirs) == join(cwd, f) \in dirs

\* os.path.exists(path)
exists(path, fs, dirs) == path \in DOMAIN fs \/ path \in dirs

\* validate_filenames leaving its loop after the first entry
validate_filenames_first_only(rootdir, listing, dirs) ==
    IF listing # <<>>
       /\ ~isdir(join(rootdir, Head(listing)), dirs)
       /\ ~Contains(Head(listing), ".")
    THEN <<join(rootdir, Head(listing))>>
    ELSE <<>>

\* ------------------------------------------------------------------------
\* validate_filenames: the paths the exception lists (<<>>: no exception)
\* ------------------------------------------------------------------------
RECURSIVE validate_filenames(_, _, _)
validate_filenames(rootdir, listing, dirs) ==
    IF listing = <<>> THEN <<>>
    ELSE LET filename == Head(listing)
             filepath == join(rootdir, filename)
             more == validate_filenames(rootdir, Tail(listing), dirs)
         IN  IF isdir(filepath, dirs) THEN more
             ELSE IF ~Contains(filename, ".") THEN <<filepath>> \o more
             ELSE more

\* ------------------------------------------------------------------------
\* get_files_createdates: ordered mapping, a sequence of <<filepath, date>>
\* ------------------------------------------------------------------------
listed_filenames(listing, cwd, dirs) ==
    SelectSeq(listing,
        LAMBDA f : ~isdir_relative(f, cwd, dirs) /\ f \notin IGNORED_FILENAMES)

get_files_createdates(rootdir, listing, cwd, dirs, birth) ==
    LET names == listed_filenames(listing, cwd, dirs)
        filepath_createdate_pairs ==
            [k \in 1..Len(names) |->
                <<join(rootdir, names[k]),
                  get_createdate(birth[join(rootdir, names[k])])>>]
    IN  sorted(filepath_createdate_pairs)

\* ------------------------------------------------------------------------
\* construct_groups: insertion-ordered mapping, a sequence of
\* <<groupname, filepaths>>
\* ------------------------------------------------------------------------
groupname_of(createdate, groupby) ==
    LET ymd == get_year_month_day(createdate)
    IN  CASE groupby = "year" -> ymd[1]
          [] groupby = "month" -> ymd[1] \o <<"-">> \o ymd[2]
          [] groupby = "date" ->
                ymd[1] \o <<"-">> \o ymd[2] \o <<"-">> \o ymd[3]

\* groups_dict[groupname].append(filepath)
group_append(groups_dict, groupname, filepath) ==
    IF \E k \in 1..Len(groups_dict) : groups_dict[k][1] = groupname
    THEN [k \in 1..Len(groups_dict) |->
            IF groups_dict[k][1] = groupname
            THEN <<groupname, Append(groups_dict[k][2], filepath)>>
            ELSE groups_dict[k]]
    ELSE Append(groups_dict, <<groupname, <<filepath>>>>)

RECURSIVE construct_groups_from(_, _, _, _)
construct_groups_from(files_createdates_dict, groupby, k, groups_dict) ==
    IF k > Len(files_createdates_dict) THEN groups_dict
    ELSE construct_groups_from(files_createdates_dict, groupby, k + 1,
            group_append(groups_dict,
                groupname_of(files_createdates_dict[k][2], groupby),
                files_createdates_dict[k][1]))

construct_groups(files_createdates_dict, groupby) ==
    construct_groups_from(files_createdates_dict, groupby, 1, <<>>)

\* ------------------------------------------------------------------------
\* construct_copy_mapping: ordered mapping, a sequence of <<filepath, target>>
\* ------------------------------------------------------------------------
RECURSIVE construct_copy_mapping(_, _)
construct_copy_mapping(groups_dict, targetdir) ==
    IF groups_dict = <<>> THEN <<>>
    ELSE LET groupname == Head(groups_dict)[1]
             group_filepaths == Head(groups_dict)[2]
             targetgroup_dir == join(targetdir, groupname)
         IN  [k \in 1..Len(group_filepaths) |->
                <<group_filepaths[k],
                  join(targetgroup_dir, SplitLast(group_filepaths[k], Sep))>>]
             \o construct_copy_mapping(Tail(groups_dict), targetdir)

\* copy_dict[filepath]
Lookup(copy_dict, filepath) ==
    copy_dict[CHOOSE k \in 1..Len(copy_dict) : copy_dict[k][1] = filepath][2]

\* ------------------------------------------------------------------------
\* rename_copy_dict
\* ------------------------------------------------------------------------
\* Counter([get_year_month_day(d) for d in files_createdates_dict.values()])
date_counts(files_createdates_dict, ymd) ==
    Cardinality({k \in 1..Len(files_createdates_dict) :
        get_year_month_day(files_createdates_dict[k][2]) = ymd})

\* the width without the "+ 1"
createdate_count_numdigits_short(createdate_count) == log10_int(createdate_count)

\* int(math.log10(createdate_count)) + 1
createdate_count_numdigits(createdate_count) == log10_int(createdate_count) + 1

\* the index taken from the count of the date, not from the running counter
idx_of_count(seen, createdate_count) ==
    rjust(str(createdate_count),
          createdate_count_numdigits(createdate_count), "0")

\* the index appended to the name of the seen-th file of a date that
\* createdate_count files share
idx_of(seen, createdate_count) ==
    rjust(str(seen), createdate_count_numdigits(createdate_count), "0")

\* one pass of the loop body: the new file name of filepath
new_filename_of(filepath, createdate_obj, datefmt, createdate_count, seen) ==
    LET base == strftime(createdate_obj, datefmt)
        named == IF createdate_count > 1
                 THEN base \o <<"_">> \o idx_of(seen, createdate_count)
                 ELSE base
        file_ext == SplitLast(filepath, ".")
    IN  named \o <<".">> \o file_ext

\* seen_dates_counter[ymd] after the k-th entry has been handled
seen_dates_counter(files_createdates_dict, k, ymd) ==
    IF date_counts(files_createdates_dict, ymd) > 1
    THEN Cardinality({m \in 1..k :
            get_year_month_day(files_createdates_dict[m][2]) = ymd})
    ELSE 0

rename_copy_dict(copy_dict, files_createdates_dict, datefmt) ==
    [k \in 1..Len(files_createdates_dict) |->
        LET filepath == files_createdates_dict[k][1]
            createdate_obj == files_createdates_dict[k][2]
            createdate_ymd == get_year_month_day(createdate_obj)
            createdate_count == date_counts(files_createdates_dict, createdate_ymd)
            seen == seen_dates_counter(files_createdates_dict, k, createdate_ymd)
            target_filepath == Lookup(copy_dict, filepath)
            target_dir == SplitInit(target_filepath, Sep)
        IN  <<filepath,
              join(target_dir,
                   new_filename_of(filepath, createdate_obj, datefmt,
                                   createdate_count, seen))>>]

\* the copy mapping main hands to copy_files
main_copy_dict(rootdir, targetdir, groupby, rename, dateformat,
               listing, cwd, dirs, birth) ==
    LET d == get_files_createdates(rootdir, listing, cwd, dirs, birth)
        plain == construct_copy_mapping(construct_groups(d, groupby), targetdir)
    IN  IF rename THEN rename_copy_dict(plain, d, dateformat) ELSE plain

\* ------------------------------------------------------------------------
\* copy_files and roll_back, one pass of their loops
\* ------------------------------------------------------------------------
\* os.makedirs(target_dir)
makedirs(target_dir, dirs) == dirs \cup {target_dir} \cup Ancestors(target_dir)

\* copy_files without the os.path.exists test: the target is overwritten
copy_one_overwrite(cur_filepath, target_filepath, fs, dirs, pre_existing_files) ==
    LET target_dir == SplitInit(target_filepath, Sep)
        made == IF ~isdir(target_dir, dirs)
                THEN makedirs(target_dir, dirs) ELSE dirs
    IN  IF cur_filepath \in dirs
        THEN [fs |-> fs, dirs |-> made,
              pre_existing_files |-> pre_existing_files,
              raised |-> "IsADirectoryError"]
        ELSE [fs |-> (target_filepath :>
                        [data |-> fs[cur_filepath].data,
                         stat |-> fs[cur_filepath].stat]) @@ fs,
              dirs |-> made,
              pre_existing_files |-> pre_existing_files,
              raised |-> ""]

\* the body of the loop of copy_files for one item of copy_dict
copy_one(cur_filepath, target_filepath, fs, dirs, pre_existing_files) ==
    LET target_dir == SplitInit(target_filepath, Sep)
        made == IF ~isdir(target_dir, dirs)
                THEN makedirs(target_dir, dirs) ELSE dirs
    IN  IF ~isdir(target_dir, dirs) /\ target_dir \in DOMAIN fs
        THEN \* os.makedirs raises FileExistsError
             [fs |-> fs, dirs |-> dirs,
              pre_existing_files |-> pre_existing_files,
              raised |-> "FileExistsError"]
        ELSE IF exists(target_filepath, fs, made)
        THEN \* do not overwrite file if target file already exists
             [fs |-> fs, dirs |-> made,
              pre_existing_files |->
                Append(pre_existing_files, <<cur_filepath, target_filepath>>),
              raised |-> ""]
        ELSE IF cur_filepath \in dirs
        THEN \* shutil.copyfile opens a directory
             [fs |-> fs, dirs |-> made,
              pre_existing_files |-> pre_existing_files,
              raised |-> "IsADirectoryError"]
        ELSE \* shutil.copyfile, then shutil.copystat
             [fs |-> (target_filepath :>
                        [data |-> fs[cur_filepath].data,
                         stat |-> fs[cur_filepath].stat]) @@ fs,
              dirs |-> made,
              pre_existing_files |-> pre_existing_files,
              raised |-> ""]

\* Python's == between a str and a tuple: never equal
StrEqualsTuple(s, t) == FALSE

\* roll_back comparing target_path with the targets of the recorded pairs
InPreExisting_by_target(target_path, pre_existing_files) ==
    \E k \in 1..Len(pre_existing_files) :
        target_path = pre_existing_files[k][2]

\* target_path in pre_existing_files, a list of (cur_filepath, target_filepath)
InPreExisting(target_path, pre_existing_files) ==
    \E k \in 1..Len(pre_existing_files) :
        StrEqualsTuple(target_path, pre_existing_files[k])

\* the body of the loop of roll_back for one value of copy_dict
roll_back_one(target_path, fs, dirs, pre_existing_files) ==
    IF ~exists(target_path, fs, dirs)
       \/ InPreExisting(target_path, pre_existing_files)
    THEN [fs |-> fs, raised |-> ""]
    ELSE IF target_path \in dirs
    THEN \* os.remove of a directory
         [fs |-> fs, raised |-> "IsADirectoryError"]
    ELSE [fs |-> [p \in (DOMAIN fs) \ {target_path} |-> fs[p]], raised |-> ""]

\* ------------------------------------------------------------------------
\* State
\* ------------------------------------------------------------------------
VARIABLES
    listing,        \* os.listdir(rootdir), in the order the system returns it
    birth,          \* st_birthtime of every entry of rootdir
    cwd,            \* the working directory of the process
    fs,             \* regular files: path -> [data, stat]
    dirs,           \* directories: set of paths
    fs0,            \* fs when the run started
    dirs0,          \* dirs when the run started
    opts,           \* parse_args(): groupby, rename, dateformat
    pc,             \* position in main
    raised,         \* the exception that ended the run, "" for none
    exitcode,       \* what main returned, -1 before it returns
    files_createdates_dict,
    groups_dict,
    copy_dict,
    pre_existing_files,
    n               \* index of the loop of copy_files / roll_back

vars == <<listing, birth, cwd, fs, dirs, fs0, dirs0, opts, pc, raised,
          exitcode, files_createdates_dict, groups_dict, copy_dict,
          pre_existing_files, n>>

\* ------------------------------------------------------------------------
\* The inputs: a source directory, a target directory, a command line
\* ------------------------------------------------------------------------
Jpg == <<".", "j", "p", "g">>
Mov == <<".", "m", "o", "v">>

OldFile == [data |-> <<"o", "l", "d">>, stat |-> "old"]

SourceFile(filepath) == [data |-> filepath, stat |-> "src"]

\* the directories among the entries names[k] of kinds kind[k]
SourceDirs(names, kind) ==
    {join(RootDir, names[k]) : k \in {m \in 1..Len(names) : kind[m] = "dir"}}

\* st_birthtime of the entries names[k] born at born[k]
BirthOf(names, born) ==
    [p \in {join(RootDir, names[k]) : k \in 1..Len(names)} |->
        born[CHOOSE k \in 1..Len(names) : join(RootDir, names[k]) = p]]

\* the state main starts in, for a source directory with the entries
\* names[k] (in listing order) of kinds kind[k] born at born[k], the working
\* directory wd with directories wdirs, the command line o and the files
\* pre already under the target directory
Start(names, kind, born, wd, wdirs, o, pre) ==
    LET paths == {join(RootDir, names[k]) : k \in 1..Len(names)}
        srcdirs == SourceDirs(names, kind)
        d == {RootDir, wd} \cup srcdirs \cup wdirs
                \cup UNION {Ancestors(t) : t \in pre}
        f == [p \in (paths \ srcdirs) \cup pre |->
                IF p \in pre THEN OldFile ELSE SourceFile(p)]
    IN  /\ listing = names
        /\ birth = BirthOf(names, born)
        /\ cwd = wd
        /\ fs = f
        /\ dirs = d
        /\ fs0 = f
        /\ dirs0 = d
        /\ opts = o
        /\ pc = "validate_filenames"
        /\ raised = ""
        /\ exitcode = -1
        /\ files_createdates_dict = <<>>
        /\ groups_dict = <<>>
        /\ copy_dict = <<>>
        /\ pre_existing_files = <<>>
        /\ n = 0

\* the targets of the copy mapping the run will build
Targets(names, kind, born, wd, wdirs, o) ==
    LET cd == main_copy_dict(RootDir, TargetDir, o.groupby, o.rename,
                o.dateformat, names, wd,
                {RootDir, wd} \cup SourceDirs(names, kind) \cup wdirs,
                BirthOf(names, born))
    IN  {cd[k][2] : k \in 1..Len(cd)}

\* sequences of len distinct elements of S
Distinct(S, len) ==
    {s \in [1..len -> S] : \A a, b \in 1..len : a # b => s[a] # s[b]}

Options ==
    {[groupby |-> g, rename |-> FALSE, dateformat |-> <<"%Y", "%m", "%d">>] :
        g \in SUPPORTED_GROUPINGS}
    \cup [groupby : SUPPORTED_GROUPINGS, rename : {TRUE},
          dateformat : DateFormats]

Day1 == [year |-> 2022, month |-> 5, day |-> 1, sec |-> 0, frac |-> 0]
Day1Frac == [year |-> 2022, month |-> 5, day |-> 1, sec |-> 0, frac |-> 5]
Day1Later == [year |-> 2022, month |-> 5, day |-> 1, sec |-> 1, frac |-> 0]
Day2 == [year |-> 2022, month |-> 5, day |-> 2, sec |-> 0, frac |-> 0]
LastYear == [year |-> 2021, month |-> 5, day |-> 1, sec |-> 0, frac |-> 0]

\* --- a mixed source directory: up to MaxFiles entries, among them files
\* without "." and sub-directories, run from rootdir or from elsewhere, with
\* any of its targets already there
MixedNames == {<<"A">> \o Jpg, <<"B">> \o Jpg, <<"C">>}

\* only an entry without "." is drawn as a directory too
Kinds(name) == IF Contains(name, ".") THEN {"file"} ELSE {"file", "dir"}

\* directories of a working directory that is not rootdir
CwdDirs == {{}, {join(OtherDir, <<"A">> \o Jpg)}}

InitMixed ==
    \E len \in 0..MaxFiles :
    \E names \in Distinct(MixedNames, len) :
    \E kind \in [1..len -> {"file", "dir"}] :
    \E born \in [1..len -> {Day1, Day2}] :
    \E wd \in {RootDir, OtherDir} :
    \E wdirs \in (IF wd = RootDir THEN {{}} ELSE CwdDirs) :
    \E o \in Options :
        /\ \A k \in 1..len : kind[k] \in Kinds(names[k])
        /\ \E pre \in SUBSET Targets(names, kind, born, wd, wdirs, o) :
            Start(names, kind, born, wd, wdirs, o, pre)

\* --- a dated source directory: up to MaxFiles photos, some of them pairs
\* (A.jpg, A.mov), of any birth time and listing order, renamed into an
\* empty target directory
DatedNames == {<<"A">> \o Jpg, <<"A">> \o Mov, <<"B">> \o Jpg}

Births == {Day1, Day1Frac, Day1Later, Day2, LastYear}

InitDated ==
    \E len \in 1..MaxFiles :
    \E names \in Distinct(DatedNames, len) :
    \E born \in [1..len -> Births] :
    \E o \in Options :
        /\ o.rename
        /\ Start(names, [k \in 1..len |-> "file"], born, RootDir, {}, o, {})

\* --- a long source directory: same \in 1..MaxSame files I<k>.jpg born the
\* same day in listing order, with or without a file of another day and a
\* .DS_Store, renamed into an empty target directory
LongName(k) == <<"I">> \o str(k) \o Jpg

InitLong ==
    \E same \in 1..MaxSame :
    \E extra \in SUBSET ({<<"Z">> \o Jpg} \cup IGNORED_FILENAMES) :
    \E o \in Options :
        LET names == [k \in 1..same |-> LongName(k)]
                        \o (IF <<"Z">> \o Jpg \in extra
                            THEN <<<<"Z">> \o Jpg>> ELSE <<>>)
                        \o (IF extra \cap IGNORED_FILENAMES # {}
                            THEN <<CHOOSE i \in IGNORED_FILENAMES : TRUE>>
                            ELSE <<>>)
            kind == [k \in 1..Len(names) |-> "file"]
            born == [k \in 1..Len(names) |->
                        IF k > same THEN Day2
                        ELSE IF k % 2 = 0 THEN Day1Frac ELSE Day1]
        IN  /\ o.rename
            /\ o.groupby = "year"
            /\ Start(names, kind, born, RootDir, {}, o, {})

Init == InitMixed \/ InitDated \/ InitLong

\* ------------------------------------------------------------------------
\* main, step by step
\* ------------------------------------------------------------------------
program == <<listing, birth, cwd, fs0, dirs0, opts>>

\* validate_filenames(rootdir)
ValidateFilenames ==
    /\ pc = "validate_filenames"
    /\ IF validate_filenames(RootDir, listing, dirs) # <<>>
       THEN pc' = "raised" /\ raised' = "Exception"
       ELSE pc' = "get_files_createdates" /\ raised' = raised
    /\ UNCHANGED <<program, fs, dirs, exitcode, files_createdates_dict,
                   groups_dict, copy_dict, pre_existing_files, n>>

\* files_createdates_dict = get_files_createdates(rootdir)
GetFilesCreatedates ==
    /\ pc = "get_files_createdates"
    /\ files_createdates_dict' =
            get_files_createdates(RootDir, listing, cwd, dirs, birth)
    /\ pc' = "construct_groups"
    /\ UNCHANGED <<program, fs, dirs, raised, exitcode, groups_dict,
                   copy_dict, pre_existing_files, n>>

\* groups_dict = construct_groups(files_createdates_dict, opts.groupby)
ConstructGroups ==
    /\ pc = "construct_groups"
    /\ groups_dict' = construct_groups(files_createdates_dict, opts.groupby)
    /\ pc' = "construct_copy_mapping"
    /\ UNCHANGED <<program, fs, dirs, raised, exitcode,
                   files_createdates_dict, copy_dict, pre_existing_files, n>>

\* copy_dict = construct_copy_mapping(groups_dict, targetdir)
ConstructCopyMapping ==
    /\ pc = "construct_copy_mapping"
    /\ copy_dict' = construct_copy_mapping(groups_dict, TargetDir)
    /\ pc' = IF opts.rename THEN "rename_copy_dict" ELSE "copy_files"
    /\ n' = 1
    /\ UNCHANGED <<program, fs, dirs, raised, exitcode,
                   files_createdates_dict, groups_dict, pre_existing_files>>

\* copy_dict = rename_copy_dict(copy_dict, files_createdates_dict, opts.dateformat)
RenameCopyDict ==
    /\ pc = "rename_copy_dict"
    /\ copy_dict' =
            rename_copy_dict(copy_dict, files_createdates_dict, opts.dateformat)
    /\ pc' = "copy_files"
    /\ UNCHANGED <<program, fs, dirs, raised, exitcode,
                   files_createdates_dict, groups_dict, pre_existing_files, n>>

\* copy_files: one item of copy_dict
CopyFilesStep ==
    /\ pc = "copy_files"
    /\ n <= Len(copy_dict)
    /\ LET r == copy_one(copy_dict[n][1], copy_dict[n][2], fs, dirs,
                         pre_existing_files)
       IN  /\ fs' = r.fs
           /\ dirs' = r.dirs
           /\ pre_existing_files' = r.pre_existing_files
           /\ raised' = r.raised
           /\ IF r.raised # ""
              THEN pc' = "raised" /\ n' = n
              ELSE pc' = pc /\ n' = n + 1
    /\ UNCHANGED <<program, exitcode, files_createdates_dict, groups_dict,
                   copy_dict>>

\* copy_files returns; main returns 0 or starts roll_back
CopyFilesReturn ==
    /\ pc = "copy_files"
    /\ n > Len(copy_dict)
    /\ IF pre_existing_files # <<>>
       THEN pc' = "roll_back" /\ n' = 1 /\ exitcode' = exitcode
       ELSE pc' = "done" /\ n' = n /\ exitcode' = 0
    /\ UNCHANGED <<program, fs, dirs, raised, files_createdates_dict,
                   groups_dict, copy_dict, pre_existing_files>>

\* roll_back: one value of copy_dict
RollBackStep ==
    /\ pc = "roll_back"
    /\ n <= Len(copy_dict)
    /\ LET r == roll_back_one(copy_dict[n][2], fs, dirs, pre_existing_files)
       IN  /\ fs' = r.fs
           /\ raised' = r.raised
           /\ IF r.raised # ""
              THEN pc' = "raised" /\ n' = n
              ELSE pc' = pc /\ n' = n + 1
    /\ UNCHANGED <<program, dirs, exitcode, files_createdates_dict,
                   groups_dict, copy_dict, pre_existing_files>>

\* roll_back returns; main returns 1
RollBackReturn ==
    /\ pc = "roll_back"
    /\ n > Len(copy_dict)
    /\ pc' = "done"
    /\ exitcode' = 1
    /\ UNCHANGED <<program, fs, dirs, raised, files_createdates_dict,
                   groups_dict, copy_dict, pre_existing_files, n>>

Next ==
    \/ ValidateFilenames
    \/ GetFilesCreatedates
    \/ ConstructGroups
    \/ ConstructCopyMapping
    \/ RenameCopyDict
    \/ CopyFilesStep
    \/ CopyFilesReturn
    \/ RollBackStep
    \/ RollBackReturn

Spec == Init /\ [][Next]_vars

\* ------------------------------------------------------------------------
\* Vocabulary of the properties
\* ------------------------------------------------------------------------
\* copy_dict is the mapping handed to copy_files
CopyDictBuilt ==
    \/ pc \in {"copy_files", "roll_back", "done"}
    \/ pc = "raised" /\ raised # "Exception"

\* files_createdates_dict has been computed
Listed ==
    pc \notin {"validate_filenames", "get_files_createdates"}
    /\ ~(pc = "raised" /\ raised = "Exception")

Renamed == opts.rename /\ CopyDictBuilt

UnderTarget(p) == StartsWith(p, TargetDir \o <<Sep>>)

\* positions of files_createdates_dict whose date is that of position k
SameDay(k) ==
    {m \in 1..Len(files_createdates_dict) :
        get_year_month_day(files_createdates_dict[m][2])
            = get_year_month_day(files_createdates_dict[k][2])}

\* the renamed copy_dict lists the sources in the order of
\* files_createdates_dict: the target of its k-th source
TargetAt(k) == copy_dict[k][2]

\* the directory the k-th source goes to
TargetDirAt(k) ==
    join(TargetDir, groupname_of(files_createdates_dict[k][2], opts.groupby))

\* the formatted date of the k-th source
DateNameAt(k) == strftime(files_createdates_dict[k][2], opts.dateformat)

\* the decimal numeral of i, filled with zeros to as many digits as count has
Padded(i, count) ==
    [z \in 1..(Len(str(count)) - Len(str(i))) |-> "0"] \o str(i)

\* the k-th source is renamed to <date><suffix>.<ext>
NamedWith(k, suffix) ==
    TargetAt(k) =
        join(TargetDirAt(k),
             DateNameAt(k) \o suffix \o <<".">>
                \o SplitLast(files_createdates_dict[k][1], "."))

\* file name, base name (before the last ".") and listing position of the
\* k-th source
FileNameAt(k) == SplitLast(files_createdates_dict[k][1], Sep)

BaseNameAt(k) == SplitInit(FileNameAt(k), ".")

ListingPos(k) == CHOOSE i \in 1..Len(listing) : listing[i] = FileNameAt(k)

\* the renamed name of the k-th source without its extension
TargetStemAt(k) == SplitInit(SplitLast(TargetAt(k), Sep), ".")

\* ------------------------------------------------------------------------
\* C1: when copy_files recorded a conflict and roll_back has returned, every
\* file that was under the target directory before the run is still there
\* with the same content.
\* ------------------------------------------------------------------------
C1_RollBackKeepsPreExisting ==
    (pc = "done" /\ exitcode = 1) =>
        \A p \in DOMAIN fs0 :
            UnderTarget(p) => p \in DOMAIN fs /\ fs[p] = fs0[p]

\* ------------------------------------------------------------------------
\* C2: if the source directory holds a non-directory entry whose name has no
\* ".", the run fails in validate_filenames before any other step and neither
\* a file nor a directory is created, changed or deleted anywhere.
\* ------------------------------------------------------------------------
Offending ==
    \E k \in 1..Len(listing) :
        ~Contains(listing[k], ".") /\ join(RootDir, listing[k]) \notin dirs0

C2_ValidationGate ==
    Offending =>
        /\ pc \in {"validate_filenames", "raised"}
        /\ pc = "raised" => raised = "Exception"
        /\ fs = fs0
        /\ dirs = dirs0
        /\ files_createdates_dict = <<>>
        /\ copy_dict = <<>>
        /\ exitcode = -1

\* the run failed in validation although the directory also holds a
\* well-named file and a target already exists
C2_Witness ==
    /\ Offending
    /\ pc = "raised"
    /\ \E k \in 1..Len(listing) : Contains(listing[k], ".")
    /\ \E p \in DOMAIN fs0 : UnderTarget(p)

\* ------------------------------------------------------------------------
\* C3: a target that existed before the run is reported as a conflict when it
\* is processed, main then returns 1, and once roll_back has returned no file
\* created by the run remains under the target directory.
\* ------------------------------------------------------------------------
Processed ==
    IF pc \in {"copy_files", "raised"} THEN 1..(n - 1)
    ELSE 1..Len(copy_dict)

C3_RollBackRemovesCreated ==
    /\ CopyDictBuilt =>
        \A k \in Processed :
            copy_dict[k][2] \in DOMAIN fs0 =>
                \E c \in 1..Len(pre_existing_files) :
                    pre_existing_files[c] = copy_dict[k]
    /\ pc = "done" =>
        /\ (\E k \in 1..Len(copy_dict) : copy_dict[k][2] \in DOMAIN fs0)
                => exitcode = 1
        /\ exitcode = 1 =>
                \A p \in DOMAIN fs : UnderTarget(p) => p \in DOMAIN fs0

\* roll_back has returned after a run that created a file and met a conflict
C3_Witness ==
    /\ pc = "done"
    /\ exitcode = 1
    /\ \E k \in 1..Len(copy_dict) : copy_dict[k][2] \in DOMAIN fs0
    /\ \E k \in 1..Len(copy_dict) :
            /\ copy_dict[k][2] \notin DOMAIN fs0
            /\ ~\E c \in 1..Len(pre_existing_files) :
                    pre_existing_files[c] = copy_dict[k]

\* ------------------------------------------------------------------------
\* C4: copy_files never overwrites.  An item whose target exists when it is
\* processed leaves every file as it was, is appended to the conflict list
\* and the loop goes on; any other item adds nothing to the list and is
\* copied; when copy_files returns, every item is either in the list or has
\* its source's content at its target.
\* ------------------------------------------------------------------------
C4_Step ==
    (pc = "copy_files" /\ n <= Len(copy_dict)) =>
        LET cur == copy_dict[n][1]
            target == copy_dict[n][2]
        IN  IF exists(target, fs, dirs)
            THEN /\ fs' = fs
                 /\ pre_existing_files' =
                        Append(pre_existing_files, <<cur, target>>)
                 /\ pc' = "copy_files"
                 /\ n' = n + 1
            ELSE /\ pre_existing_files' = pre_existing_files
                 /\ pc' = "copy_files" =>
                        /\ n' = n + 1
                        /\ DOMAIN fs' = DOMAIN fs \cup {target}
                        /\ fs'[target] = fs[cur]
                        /\ \A p \in DOMAIN fs : fs'[p] = fs[p]

C4_Return ==
    (pc = "copy_files" /\ n > Len(copy_dict)) =>
        \A k \in 1..Len(copy_dict) :
            \/ \E c \in 1..Len(pre_existing_files) :
                    pre_existing_files[c] = copy_dict[k]
            \/ /\ copy_dict[k][2] \in DOMAIN fs
               /\ fs[copy_dict[k][2]] = fs[copy_dict[k][1]]

C4_NeverOverwrites == [][C4_Step /\ C4_Return]_vars

\* copy_files is about to return having skipped an existing target, which
\* still holds its old content, and having copied another file
C4_Witness ==
    /\ pc = "copy_files"
    /\ n > Len(copy_dict)
    /\ \E c \in 1..Len(pre_existing_files) :
            /\ pre_existing_files[c][2] \in DOMAIN fs0
            /\ fs[pre_existing_files[c][2]] = OldFile
    /\ \E k \in 1..Len(copy_dict) :
            /\ copy_dict[k][2] \notin DOMAIN fs0
            /\ fs[copy_dict[k][2]] = SourceFile(copy_dict[k][1])

\* ------------------------------------------------------------------------
\* C5: with renaming, paired files (same base name, different extensions)
\* that share a creation date get the same numeric suffix, so that their new
\* names differ only in the extension.
\* ------------------------------------------------------------------------
Paired(a, b) ==
    /\ a # b
    /\ BaseNameAt(a) = BaseNameAt(b)
    /\ b \in SameDay(a)

C5_PairsShareSuffix ==
    Renamed =>
        \A a, b \in 1..Len(files_createdates_dict) :
            Paired(a, b) => TargetStemAt(a) = TargetStemAt(b)

\* C5 as amended: with renaming, paired files that share a creation date get
\* different numeric suffixes, one index for every file of the date, so that
\* their new names differ in the stem too.
C5_PairsGetOwnSuffix ==
    Renamed =>
        \A a, b \in 1..Len(files_createdates_dict) :
            Paired(a, b) =>
                /\ TargetStemAt(a) # TargetStemAt(b)
                /\ StartsWith(TargetStemAt(a), DateNameAt(a) \o <<"_">>)
                /\ StartsWith(TargetStemAt(b), DateNameAt(a) \o <<"_">>)

\* a pair born the same day has been renamed
C5_Witness ==
    /\ Renamed
    /\ \E a, b \in 1..Len(files_createdates_dict) :
            Paired(a, b) /\ NamedWith(a, <<"_", "1">>) /\ NamedWith(b, <<"_", "2">>)

\* ------------------------------------------------------------------------
\* C6: the N > 1 files of one creation date are renamed with the suffixes
\* _1 .. _N, each used exactly once, each filled with zeros to the number of
\* digits of N; the file of a date that occurs once gets no suffix.
\* ------------------------------------------------------------------------
SuffixAt(k) ==
    SubSeq(TargetAt(k),
           Len(join(TargetDirAt(k), DateNameAt(k))) + 1,
           Len(TargetAt(k))
                - Len(SplitLast(files_createdates_dict[k][1], ".")) - 1)

C6_Suffixes ==
    Renamed =>
        /\ \A k \in 1..Len(files_createdates_dict) : NamedWith(k, SuffixAt(k))
        /\ \A k \in 1..Len(files_createdates_dict) :
            LET count == Cardinality(SameDay(k))
            IN  IF count > 1
                THEN /\ {SuffixAt(m) : m \in SameDay(k)}
                            = {<<"_">> \o Padded(i, count) : i \in 1..count}
                     /\ \A m \in SameDay(k) \ {k} : SuffixAt(m) # SuffixAt(k)
                ELSE SuffixAt(k) = <<>>

\* ten or more files of one date and a file of a date of its own have been
\* renamed
C6_Witness ==
    /\ Renamed
    /\ \E k \in 1..Len(files_createdates_dict) :
            /\ Cardinality(SameDay(k)) >= 10
            /\ NamedWith(k, <<"_", "0", "3">>)
    /\ \E k \in 1..Len(files_createdates_dict) :
            Cardinality(SameDay(k)) = 1 /\ NamedWith(k, <<>>)

\* ------------------------------------------------------------------------
\* C7: the copy mapping handed to copy_files is injective: no two sources
\* have the same target (a renaming that would produce two equal targets
\* ends the run before anything is copied).
\* ------------------------------------------------------------------------
C7_Injective ==
    CopyDictBuilt =>
        \A a, b \in 1..Len(copy_dict) :
            a # b => copy_dict[a][2] # copy_dict[b][2]

\* ------------------------------------------------------------------------
\* C8: two independent files (different base names) that alone share a
\* creation date get _1 and _2 in directory-listing order, whatever the time
\* of day of their creation timestamps.
\* ------------------------------------------------------------------------
Independent(a, b) ==
    /\ a # b
    /\ BaseNameAt(a) # BaseNameAt(b)
    /\ SameDay(a) = {a, b}

C8_ListingOrder ==
    Renamed =>
        \A a, b \in 1..Len(files_createdates_dict) :
            (Independent(a, b) /\ ListingPos(a) < ListingPos(b)) =>
                NamedWith(a, <<"_", "1">>) /\ NamedWith(b, <<"_", "2">>)

\* C8 as amended: two independent files that alone share a creation date get
\* _1 and _2 in ascending order of their creation timestamps taken to the
\* second; directory-listing order decides only between equal timestamps.
FirstOf(a, b) ==
    \/ DatetimeLess(files_createdates_dict[a][2], files_createdates_dict[b][2])
    \/ /\ files_createdates_dict[a][2] = files_createdates_dict[b][2]
       /\ ListingPos(a) < ListingPos(b)

C8_TimestampOrder ==
    Renamed =>
        \A a, b \in 1..Len(files_createdates_dict) :
            (Independent(a, b) /\ FirstOf(a, b)) =>
                NamedWith(a, <<"_", "1">>) /\ NamedWith(b, <<"_", "2">>)

\* two independent files of one day have been renamed, the one listed first
\* created later in the day
C8_Witness ==
    /\ Renamed
    /\ \E a, b \in 1..Len(files_createdates_dict) :
            /\ Independent(a, b)
            /\ FirstOf(a, b)
            /\ ListingPos(b) < ListingPos(a)
            /\ NamedWith(a, <<"_", "1">>)

\* ------------------------------------------------------------------------
\* C9: for each of year, month, date, construct_groups puts every non-ignored
\* file of the source directory into exactly one group and nothing else into
\* any group, and the partitions refine: same date group => same month group
\* => same year group.
\* ------------------------------------------------------------------------
SourceFiles ==
    {join(RootDir, listing[k]) :
        k \in {m \in 1..Len(listing) :
                /\ join(RootDir, listing[m]) \notin dirs0
                /\ listing[m] \notin IGNORED_FILENAMES}}

GroupsOf(groupby) == construct_groups(files_createdates_dict, groupby)

\* the positions of the groups that hold filepath
GroupsHolding(groupby, filepath) ==
    {g \in 1..Len(GroupsOf(groupby)) :
        \E i \in 1..Len(GroupsOf(groupby)[g][2]) :
            GroupsOf(groupby)[g][2][i] = filepath}

Grouped(groupby) ==
    UNION {{GroupsOf(groupby)[g][2][i] : i \in 1..Len(GroupsOf(groupby)[g][2])} :
            g \in 1..Len(GroupsOf(groupby))}

Together(groupby, x, y) ==
    GroupsHolding(groupby, x) \cap GroupsHolding(groupby, y) # {}

C9_Partition ==
    Listed =>
        /\ \A groupby \in SUPPORTED_GROUPINGS :
            /\ Grouped(groupby) = SourceFiles
            /\ \A x \in SourceFiles :
                    Cardinality(GroupsHolding(groupby, x)) = 1
        /\ \A x, y \in SourceFiles :
            /\ Together("date", x, y) => Together("month", x, y)
            /\ Together("month", x, y) => Together("year", x, y)

\* ------------------------------------------------------------------------
\* C10: whatever the working directory, no sub-directory of the source
\* directory is a key of files_createdates_dict, of a group or of the copy
\* mapping.
\* ------------------------------------------------------------------------
C10_NoDirectories ==
    /\ \A k \in 1..Len(files_createdates_dict) :
            files_createdates_dict[k][1] \notin dirs
    /\ \A k \in 1..Len(copy_dict) : copy_dict[k][1] \notin dirs

====
